---- MODULE Spec2Model ----
(***************************************************************************)
(* Model of orbs-proxy.py: a FastAPI proxy with two rate-limited routes    *)
(* (/proxy/tempest, /proxy/parquet).  Each route validates the inbound     *)
(* parameters, performs one upstream HTTP call and projects the upstream   *)
(* JSON onto a reduced schema with transform_data_tempest /                *)
(* transform_data_parquet.                                                 *)
(*                                                                         *)
(* JSON values are tagged records; Python exceptions are results with      *)
(* ok = FALSE.  The specifications share the definitions:                  *)
(*   SpecTempest, SpecParquet : the two transformers applied to payloads   *)
(*                              drawn from bounded sets;                   *)
(*   Spec                     : concurrent requests through the handlers;  *)
(*   SpecRequests             : one request at a time, of every kind;      *)
(*   SpecLimiter              : the handlers under the 5/minute limiter.   *)
(***************************************************************************)
EXTENDS Integers, Sequences, FiniteSets, TLC

VARIABLES
    tIn,        \* transformer under test: the upstream payload (data)
    tPerf,      \* transformer under test: perf argument
    tPerfChart, \* transformer under test: perf_chart argument
    tPc,        \* transformer under test: "idle" | "call" | "returned"
    tOut,       \* transformer under test: its result (value or exception)
    slots,      \* in-flight requests: one handler coroutine per slot
    hits,       \* limiter storage: key -> hits in the current window
    win,        \* history: (endpoint, address) -> requests routed in the window
    arrivals,   \* number of requests received so far
    ev          \* history: what the step just taken did (its response, if any)

vars == <<tIn, tPerf, tPerfChart, tPc, tOut, slots, hits, win, arrivals, ev>>

(***************************************************************************)
(* JSON values as Python sees them after response.json()                   *)
(***************************************************************************)
Null == [t |-> "null"]
Bool(b) == [t |-> "bool", v |-> b]
Num(k) == [t |-> "num", v |-> k]
Str(s) == [t |-> "str", v |-> s]
Obj(m) == [t |-> "obj", v |-> m]
Arr(q) == [t |-> "arr", v |-> q]

EmptyMap == [k \in {} |-> Null]

\* A dict literal with one key, and dict union (right operand wins).
Field(k, x) == [j \in {k} |-> x]
Merge(m1, m2) ==
    [k \in DOMAIN m1 \cup DOMAIN m2 |-> IF k \in DOMAIN m2 THEN m2[k] ELSE m1[k]]

\* Outcome of evaluating a Python expression: a value or a raised exception.
Ok(x) == [ok |-> TRUE, val |-> x]
Raise(e) == [ok |-> FALSE, exc |-> e]
Bind(r, F(_)) == IF r.ok THEN F(r.val) ELSE r

Min(a, b) == IF a <= b THEN a ELSE b

RECURSIVE SetToSeq(_)
SetToSeq(S) ==
    IF S = {} THEN <<>>
    ELSE LET x == CHOOSE y \in S : TRUE IN <<x>> \o SetToSeq(S \ {x})

\* d.get(k, default): only a dict has .get
PyGet(d, k, default) ==
    IF d.t = "obj"
    THEN Ok(IF k \in DOMAIN d.v THEN d.v[k] ELSE default)
    ELSE Raise("AttributeError")

\* k in d, for a string k: key test on a dict, element test on a list,
\* TypeError on None, numbers and booleans.  (A bare string operand would be
\* a substring search; no payload of the model is a bare string there.)
PyIn(k, d) ==
    CASE d.t = "obj" -> Ok(k \in DOMAIN d.v)
      [] d.t = "arr" -> Ok(\E i \in 1..Len(d.v) : d.v[i] = Str(k))
      [] OTHER -> Raise("TypeError")

\* d[k], for a string k
PyIndex(d, k) ==
    IF d.t = "obj"
    THEN IF k \in DOMAIN d.v THEN Ok(d.v[k]) ELSE Raise("KeyError")
    ELSE Raise("TypeError")

\* for x in d: the elements of a list, the keys of a dict (as strings),
\* TypeError on None, numbers and booleans.
PyIter(d) ==
    CASE d.t = "arr" -> Ok(d.v)
      [] d.t = "obj" -> Ok([i \in 1..Cardinality(DOMAIN d.v) |->
                              Str(SetToSeq(DOMAIN d.v)[i])])
      [] OTHER -> Raise("TypeError")

\* d[:n]: a list slice; a dict or None cannot be sliced
PySlice(d, n) ==
    IF d.t = "arr" THEN Ok(SubSeq(d.v, 1, Min(n, Len(d.v)))) ELSE Raise("TypeError")

\* bool(x)
Truthy(x) ==
    CASE x.t = "null" -> FALSE
      [] x.t = "bool" -> x.v
      [] x.t = "num" -> x.v # 0
      [] x.t = "str" -> x.v # ""
      [] x.t = "obj" -> DOMAIN x.v # {}
      [] x.t = "arr" -> Len(x.v) # 0

\* x == 0: numbers compare by value, False == 0, nothing else equals 0
PyEqZero(x) ==
    CASE x.t = "num" -> x.v = 0
      [] x.t = "bool" -> x.v = FALSE
      [] OTHER -> FALSE

\* str.lower() on the asset-type strings of the model
LowerStr(s) ==
    CASE s = "SECURITY" -> "security"
      [] s = "Security" -> "security"
      [] s = "Crypto" -> "crypto"
      [] s = "CRYPTO" -> "crypto"
      [] s = "Bond" -> "bond"
      [] OTHER -> s

\* x.lower(): only a string has .lower
PyLower(x) ==
    IF x.t = "str" THEN Ok(Str(LowerStr(x.v))) ELSE Raise("AttributeError")

\* The first exception of a sequence of evaluated expressions, if any.
AllOk(rs) == \A i \in 1..Len(rs) : rs[i].ok
FirstRaise(rs) == rs[CHOOSE i \in 1..Len(rs) : ~rs[i].ok /\ \A j \in 1..(i-1) : rs[j].ok]

\* {keys[1]: rs[1], ...}: a dict display whose values are evaluated in order
DictOf(keys, rs) ==
    IF AllOk(rs)
    THEN Ok(Obj([k \in {keys[i] : i \in 1..Len(keys)} |->
                   rs[CHOOSE i \in 1..Len(keys) : keys[i] = k].val]))
    ELSE FirstRaise(rs)

(***************************************************************************)
(* transform_data_tempest                                                  *)
(***************************************************************************)
ForecastDays == 4

CurrentConditionsKeys ==
    <<"air_temperature", "icon", "conditions", "feels_like", "relative_humidity",
      "station_pressure", "precip_probability", "wind_gust">>

DailyKeys ==
    <<"day_start_local", "air_temp_high", "air_temp_low", "conditions", "day_num",
      "month_num", "precip_probability", "precip_type", "icon", "precip_icon">>

\* mutant: the 8 keys are filled in (with nulls) even when the payload has
\* no current_conditions
filter_current_conditions_always(data) ==
    Bind(PyGet(data, "current_conditions", Obj(EmptyMap)), LAMBDA cc :
        DictOf(CurrentConditionsKeys,
               [i \in 1..Len(CurrentConditionsKeys) |->
                   PyGet(cc, CurrentConditionsKeys[i], Null)]))

\* lines 84-93: the current_conditions part of filtered_data
filter_current_conditions(data) ==
    Bind(PyIn("current_conditions", data), LAMBDA present :
        IF ~present THEN Ok(Obj(EmptyMap))
        ELSE Bind(PyIndex(data, "current_conditions"), LAMBDA cc :
                DictOf(CurrentConditionsKeys,
                       [i \in 1..Len(CurrentConditionsKeys) |->
                           PyGet(cc, CurrentConditionsKeys[i], Null)])))

\* lines 98-110: one filtered_daily
filter_daily(daily_forecast) ==
    DictOf(DailyKeys,
           [i \in 1..Len(DailyKeys) |-> PyGet(daily_forecast, DailyKeys[i], Null)])

\* lines 97-111: the loop over the sliced list, appending in order
RECURSIVE filter_daily_loop(_, _, _)
filter_daily_loop(items, i, acc) ==
    IF i > Len(items) THEN Ok(Arr(acc))
    ELSE Bind(filter_daily(items[i]), LAMBDA fd :
            filter_daily_loop(items, i + 1, Append(acc, fd)))

\* mutant: the loop runs over the whole list instead of its first four items
filter_forecast_all_days(data) ==
    Bind(PyIn("forecast", data), LAMBDA hasForecast :
        IF ~hasForecast THEN Ok(Arr(<<>>))
        ELSE Bind(PyIndex(data, "forecast"), LAMBDA forecast :
             Bind(PyIn("daily", forecast), LAMBDA hasDaily :
                IF ~hasDaily THEN Ok(Arr(<<>>))
                ELSE Bind(PyIndex(forecast, "daily"), LAMBDA daily :
                     Bind(PyIter(daily), LAMBDA items :
                        filter_daily_loop(items, 1, <<>>))))))

\* lines 96-111: the forecast.daily part of filtered_data
filter_forecast(data) ==
    Bind(PyIn("forecast", data), LAMBDA hasForecast :
        IF ~hasForecast THEN Ok(Arr(<<>>))
        ELSE Bind(PyIndex(data, "forecast"), LAMBDA forecast :
             Bind(PyIn("daily", forecast), LAMBDA hasDaily :
                IF ~hasDaily THEN Ok(Arr(<<>>))
                ELSE Bind(PyIndex(forecast, "daily"), LAMBDA daily :
                     Bind(PySlice(daily, ForecastDays), LAMBDA items :
                        filter_daily_loop(items, 1, <<>>))))))

transform_data_tempest(data) ==
    Bind(filter_current_conditions(data), LAMBDA cc :
    Bind(filter_forecast(data), LAMBDA daily :
        Ok(Obj(Merge(Field("current_conditions", cc),
                     Field("forecast", Obj(Field("daily", daily))))))))

(***************************************************************************)
(* transform_data_parquet                                                  *)
(***************************************************************************)
get_perf(data, perf) == PyGet(data, perf, Num(0))

get_perf_chart(data, perf_chart) ==
    Bind(PyGet(data, "values", Obj(EmptyMap)), LAMBDA values :
        PyGet(values, perf_chart, Num(0)))

\* holding.get(k1, {}).get(k2)
GetNested(holding, k1, k2) ==
    Bind(PyGet(holding, k1, Obj(EmptyMap)), LAMBDA sub : PyGet(sub, k2, Null))

HoldingKeys ==
    <<"assetType", "currency", "id", "name", "priceStart", "valueStart",
      "priceNow", "valueNow", "shares", "perf">>

AssetTypes == {"security", "crypto"}

\* lines 129-140: the filtered_holding dict display
filtered_holding(holding, asset_type, perf) ==
    DictOf(HoldingKeys,
           << Ok(asset_type),
              PyGet(holding, "currency", Null),
              GetNested(holding, "asset", "identifier"),
              GetNested(holding, "sharedAsset", "name"),
              GetNested(holding, "performance", "priceAtIntervalStart"),
              GetNested(holding, "performance", "purchaseValueForInterval"),
              GetNested(holding, "position", "currentPrice"),
              GetNested(holding, "position", "currentValue"),
              GetNested(holding, "position", "shares"),
              Bind(PyGet(holding, "performance", Obj(EmptyMap)), LAMBDA p :
                  get_perf(p, perf)) >>)

\* mutant: the asset type is compared without lower-casing it
filter_holding_case_sensitive(holding, perf) ==
    Bind(PyGet(holding, "assetType", Str("")), LAMBDA asset_type :
        IF ~(asset_type.t = "str" /\ asset_type.v \in AssetTypes) THEN Ok(<<>>)
        ELSE Bind(GetNested(holding, "position", "isSold"), LAMBDA is_sold :
             Bind(GetNested(holding, "position", "shares"), LAMBDA shares :
                IF Truthy(is_sold) \/ PyEqZero(shares) THEN Ok(<<>>)
                ELSE Bind(filtered_holding(holding, asset_type, perf), LAMBDA fh :
                        Ok(<<fh>>)))))

\* lines 122-141: one iteration of the holdings loop.  The result is the
\* list of holdings to append: empty on `continue`, one element otherwise.
filter_holding(holding, perf) ==
    Bind(PyGet(holding, "assetType", Str("")), LAMBDA raw :
    Bind(PyLower(raw), LAMBDA asset_type :
        IF ~(asset_type.t = "str" /\ asset_type.v \in AssetTypes) THEN Ok(<<>>)
        ELSE Bind(GetNested(holding, "position", "isSold"), LAMBDA is_sold :
             Bind(GetNested(holding, "position", "shares"), LAMBDA shares :
                IF Truthy(is_sold) \/ PyEqZero(shares) THEN Ok(<<>>)
                ELSE Bind(filtered_holding(holding, asset_type, perf), LAMBDA fh :
                        Ok(<<fh>>))))))

\* lines 121-141: the loop over data["holdings"], appending in order
RECURSIVE holdings_loop(_, _, _, _)
holdings_loop(items, i, perf, acc) ==
    IF i > Len(items) THEN Ok(Arr(acc))
    ELSE Bind(filter_holding(items[i], perf), LAMBDA kept :
            holdings_loop(items, i + 1, perf, acc \o kept))

\* lines 120-141
filter_holdings(data, perf) ==
    Bind(PyIn("holdings", data), LAMBDA present :
        IF ~present THEN Ok(Arr(<<>>))
        ELSE Bind(PyIndex(data, "holdings"), LAMBDA hs :
             Bind(PyIter(hs), LAMBDA items :
                holdings_loop(items, 1, perf, <<>>))))

\* lines 143-149
filter_performance(data, perf) ==
    Bind(PyGet(data, "performance", Obj(EmptyMap)), LAMBDA performance_data :
        DictOf(<<"valueStart", "valueNow", "perf">>,
               << PyGet(performance_data, "purchaseValueForInterval", Null),
                  PyGet(performance_data, "value", Null),
                  get_perf(performance_data, perf) >>))

\* lines 152-158: the loop over data["charts"]; `first` is the loop flag
RECURSIVE charts_loop(_, _, _, _, _)
charts_loop(items, i, first, perf_chart, acc) ==
    IF i > Len(items) THEN Ok(Arr(acc))
    ELSE IF first THEN charts_loop(items, i + 1, FALSE, perf_chart, acc)
    ELSE Bind(get_perf_chart(items[i], perf_chart), LAMBDA x :
            charts_loop(items, i + 1, FALSE, perf_chart, Append(acc, x)))

\* mutant: the loop starts with first = False, so no record is skipped
filter_charts_keep_first(data, perf_chart) ==
    Bind(PyIn("charts", data), LAMBDA present :
        IF ~present THEN Ok(Arr(<<>>))
        ELSE Bind(PyIndex(data, "charts"), LAMBDA cs :
             Bind(PyIter(cs), LAMBDA items :
                charts_loop(items, 1, FALSE, perf_chart, <<>>))))

\* lines 151-158
filter_charts(data, perf_chart) ==
    Bind(PyIn("charts", data), LAMBDA present :
        IF ~present THEN Ok(Arr(<<>>))
        ELSE Bind(PyIndex(data, "charts"), LAMBDA cs :
             Bind(PyIter(cs), LAMBDA items :
                charts_loop(items, 1, TRUE, perf_chart, <<>>))))

transform_data_parquet(data, perf, perf_chart) ==
    Bind(filter_holdings(data, perf), LAMBDA hs :
    Bind(filter_performance(data, perf), LAMBDA pf :
    Bind(filter_charts(data, perf_chart), LAMBDA ch :
        Ok(Obj(Merge(Merge(Field("holdings", hs), Field("performance", pf)),
                     Field("chart", ch)))))))

(***************************************************************************)
(* Upstream payloads the transformers are applied to                       *)
(***************************************************************************)
MaxDaily == 5
MaxHoldings == 3
MaxCharts == 3

SeqsUpTo(S, n) == UNION {[1..k -> S] : k \in 0..n}

\* a dict from a sequence of <<key, value>> pairs
Dict(pairs) ==
    [k \in {pairs[i][1] : i \in 1..Len(pairs)} |->
        pairs[CHOOSE i \in 1..Len(pairs) : pairs[i][1] = k][2]]

FullConditions ==
    Obj(Dict(<< <<"air_temperature", Num(21)>>, <<"icon", Str("clear-day")>>,
                <<"conditions", Str("Clear")>>, <<"feels_like", Num(20)>>,
                <<"relative_humidity", Num(40)>>, <<"station_pressure", Num(1013)>>,
                <<"precip_probability", Num(0)>>, <<"wind_gust", Num(7)>>,
                <<"wind_avg", Num(3)>>, <<"time", Num(1700000000)>> >>))

PartialConditions ==
    Obj(Dict(<< <<"air_temperature", Num(3)>>, <<"icon", Null>>,
                <<"uv", Num(2)>> >>))

ConditionsParts ==
    { EmptyMap,
      Field("current_conditions", Null),
      Field("current_conditions", Obj(EmptyMap)),
      Field("current_conditions", FullConditions),
      Field("current_conditions", PartialConditions) }

FullDaily ==
    Obj(Dict(<< <<"day_start_local", Num(1700000000)>>, <<"air_temp_high", Num(25)>>,
                <<"air_temp_low", Num(11)>>, <<"conditions", Str("Clear")>>,
                <<"day_num", Num(1)>>, <<"month_num", Num(11)>>,
                <<"precip_probability", Num(10)>>, <<"precip_type", Str("rain")>>,
                <<"icon", Str("clear-day")>>, <<"precip_icon", Str("chance-rain")>>,
                <<"sunrise", Num(1700010000)>> >>))

PartialDaily ==
    Obj(Dict(<< <<"day_num", Num(2)>>, <<"icon", Null>>, <<"sunset", Num(5)>> >>))

DailyRecords == { FullDaily, PartialDaily, Obj(EmptyMap), Null }

ForecastParts ==
    { EmptyMap,
      Field("forecast", Null),
      Field("forecast", Obj(Field("hourly", Arr(<<>>)))),
      Field("forecast", Obj(Field("daily", Null))) }
    \cup { Field("forecast", Obj(Merge(Field("hourly", Arr(<<>>)), Field("daily", Arr(q)))))
           : q \in SeqsUpTo(DailyRecords, MaxDaily) }

TempestPayloads ==
    { Obj(Merge(Merge(Field("status", Obj(Field("status_code", Num(0)))), c), f))
      : c \in ConditionsParts, f \in ForecastParts }
    \cup { Null, Arr(<<>>), Arr(<<Str("forecast")>>) }

Position(isSold, shares) ==
    Obj(Dict(<< <<"isSold", isSold>>, <<"shares", shares>>,
                <<"currentPrice", Num(10)>>, <<"currentValue", Num(30)>> >>))

HoldingPerformance ==
    Obj(Dict(<< <<"ttwror", Num(5)>>, <<"priceAtIntervalStart", Num(9)>>,
                <<"purchaseValueForInterval", Num(27)>> >>))

\* a holding record: `id` tells the holdings apart, `parts` are its optional keys
Holding(id, parts) ==
    Obj(Merge(Dict(<< <<"asset", Obj(Field("identifier", Str(id)))>>,
                      <<"currency", Str("EUR")>>,
                      <<"logo", Str("x.png")>> >>), parts))

ActiveSecurity ==
    Holding("h1", Dict(<< <<"assetType", Str("Security")>>,
                          <<"position", Position(Bool(FALSE), Num(3))>>,
                          <<"performance", HoldingPerformance>>,
                          <<"sharedAsset", Obj(Field("name", Str("ACME")))>> >>))

SoldSecurity ==
    Holding("h4", Dict(<< <<"assetType", Str("security")>>,
                          <<"position", Position(Bool(TRUE), Num(2))>> >>))

HoldingRecords ==
    { ActiveSecurity,
      Holding("h2", Dict(<< <<"assetType", Str("crypto")>>,
                            <<"position", Obj(Field("shares", Num(-5)))>> >>)),
      Holding("h3", Dict(<< <<"assetType", Str("SECURITY")>>,
                            <<"position", Position(Bool(FALSE), Num(0))>> >>)),
      SoldSecurity,
      Holding("h5", Dict(<< <<"assetType", Str("bond")>>,
                            <<"position", Position(Bool(FALSE), Num(3))>> >>)),
      Holding("h6", Dict(<< <<"position", Position(Bool(FALSE), Num(3))>> >>)),
      Holding("h7", Dict(<< <<"assetType", Str("Crypto")>>,
                            <<"position", Position(Null, Null)>> >>)),
      Holding("h8", Dict(<< <<"assetType", Str("security")>> >>)),
      Holding("h9", Dict(<< <<"assetType", Str("crypto")>>,
                            <<"position", Position(Num(1), Bool(FALSE))>> >>)),
      Holding("h10", Dict(<< <<"assetType", Null>>,
                             <<"position", Position(Bool(FALSE), Num(3))>> >>)),
      Holding("h11", Dict(<< <<"assetType", Str("crypto")>>,
                             <<"position", Null>> >>)),
      Holding("h12", Dict(<< <<"assetType", Str("Bond")>>,
                             <<"position", Null>> >>)),
      Null }

ChartRecords ==
    { Obj(Field("values", Obj(Dict(<< <<"drawdown", Num(7)>>, <<"ttwror", Num(1)>> >>)))),
      Obj(Dict(<< <<"date", Str("2024-01-02")>>,
                  <<"values", Obj(Field("ttwror", Num(2)))>> >>)),
      Obj(Field("date", Str("2024-01-03"))),
      Obj(Field("values", Null)),
      Null }

PerformanceParts ==
    { EmptyMap,
      Field("performance", Null),
      Field("performance", Obj(Dict(<< <<"purchaseValueForInterval", Num(100)>>,
                                       <<"value", Num(110)>>, <<"izf", Num(4)>>,
                                       <<"fees", Num(1)>> >>))),
      Field("performance", Obj(Field("value", Num(90)))) }

HoldingsParts ==
    { EmptyMap, Field("holdings", Null) }
    \cup { Field("holdings", Arr(q)) : q \in SeqsUpTo(HoldingRecords, MaxHoldings) }

ChartsParts ==
    { EmptyMap, Field("charts", Null) }
    \cup { Field("charts", Arr(q)) : q \in SeqsUpTo(ChartRecords, MaxCharts) }

SomeHoldingsParts ==
    { EmptyMap, Field("holdings", Null),
      Field("holdings", Arr(<<ActiveSecurity>>)) }

\* payloads that vary the holdings, and payloads that vary the charts
HoldingsPayloads ==
    { Obj(Merge(Field("portfolios", Arr(<<>>)), h)) : h \in HoldingsParts }

ChartsPayloads ==
    { Obj(Merge(Merge(h, p), c))
      : h \in SomeHoldingsParts, p \in PerformanceParts, c \in ChartsParts }
    \cup { Null, Arr(<<>>) }

PerfNames == {"ttwror", "izf"}
PerfChartNames == {"drawdown", "perfHistory"}

(***************************************************************************)
(* The transformers under test                                             *)
(***************************************************************************)
NotRun == Raise("NotRun")

ServerIdle ==
    /\ slots = <<>>
    /\ hits = <<>>
    /\ win = <<>>
    /\ arrivals = 0
    /\ ev = [kind |-> "none"]

InitTempest ==
    /\ tIn \in TempestPayloads
    /\ tPerf = ""
    /\ tPerfChart = ""
    /\ tPc = "call"
    /\ tOut = NotRun
    /\ ServerIdle

CallTempest ==
    /\ tPc = "call"
    /\ tOut' = transform_data_tempest(tIn)
    /\ tPc' = "returned"
    /\ UNCHANGED <<tIn, tPerf, tPerfChart, slots, hits, win, arrivals, ev>>

NextTempest == CallTempest

SpecTempest == InitTempest /\ [][NextTempest]_vars

InitParquet ==
    /\ \/ tIn \in HoldingsPayloads /\ tPerf \in PerfNames /\ tPerfChart = "drawdown"
       \/ tIn \in ChartsPayloads /\ tPerf \in PerfNames /\ tPerfChart \in PerfChartNames
    /\ tPc = "call"
    /\ tOut = NotRun
    /\ ServerIdle

CallParquet ==
    /\ tPc = "call"
    /\ tOut' = transform_data_parquet(tIn, tPerf, tPerfChart)
    /\ tPc' = "returned"
    /\ UNCHANGED <<tIn, tPerf, tPerfChart, slots, hits, win, arrivals, ev>>

NextParquet == CallParquet

SpecParquet == InitParquet /\ [][NextParquet]_vars

(***************************************************************************)
(* Requests, validation models, upstream replies                           *)
(***************************************************************************)
RateLimit == 5
Endpoints == {"tempest", "parquet"}
Addresses == {"10.0.0.1", "10.0.0.2"}
\* the methods the two routes are registered for (app.get, app.post)
RouteMethods == {"GET", "POST"}

NotJson == [t |-> "notjson"]

\* field name and allowed literals ({} for a plain str field)
WeatherRequestFields ==
    << <<"station_id", {}>>, <<"units_temp", {"c", "f"}>>,
       <<"units_wind", {"mph", "kph", "m/s"}>>, <<"units_pressure", {"mb", "inHg"}>>,
       <<"units_precip", {"in", "mm"}>>, <<"units_distance", {"mi", "km"}>>,
       <<"api_key", {}>> >>

PortfolioRequestFields ==
    << <<"id", {}>>,
       <<"timeframe", {"today", "1d", "1w", "1m", "3m", "6m", "1y", "5y", "10y",
                       "mtd", "ytd", "max"}>>,
       <<"perf", {"returnGross", "returnNet", "totalReturnGross", "totalReturnNet",
                  "ttwror", "izf"}>>,
       <<"perfChart", {"perfHistory", "perfHistoryUnrealized", "ttwror", "drawdown"}>> >>

FieldNames(fields) == {fields[i][1] : i \in 1..Len(fields)}

\* pydantic BaseModel(**kwargs): every field present, a string, and one of
\* its literals; unknown keys are ignored.  Raises ValidationError.
BaseModel(fields, kwargs) ==
    IF \A i \in 1..Len(fields) :
          /\ fields[i][1] \in DOMAIN kwargs
          /\ kwargs[fields[i][1]].t = "str"
          /\ fields[i][2] = {} \/ kwargs[fields[i][1]].v \in fields[i][2]
    THEN Ok([k \in FieldNames(fields) |-> kwargs[k].v])
    ELSE Raise("ValidationError")

WeatherRequest(kwargs) == BaseModel(WeatherRequestFields, kwargs)
PortfolioRequest(kwargs) == BaseModel(PortfolioRequestFields, kwargs)

\* request.query_params.get(k): the value, or None
QueryGet(request, k) == IF k \in DOMAIN request.query THEN request.query[k] ELSE Null

\* what a handler step ends with
HTTPException(status, detail) == [k |-> "raise_http", status |-> status, detail |-> detail]
Unhandled(exc) == [k |-> "raise", exc |-> exc]
AwaitBody == [k |-> "await_body"]
AwaitFetch(request_data, call) == [k |-> "await_fetch", request_data |-> request_data, call |-> call]
Return(status, body, raw, args) ==
    [k |-> "return", status |-> status, body |-> body, raw |-> raw, args |-> args]

WEATHER_API_BASE == "https://swd.weatherflow.com/swd/rest/better_forecast"
PARQET_API_BASE ==
    "https://api.parqet.com/v1/portfolios/assemble?useInclude=true&include=ttwror&include=performance_charts&resolution=200"

(***************************************************************************)
(* /proxy/tempest                                                          *)
(***************************************************************************)
\* lines 213-224: the params dict and the call fetch_weather_data sends
weather_call(request_data) ==
    AwaitFetch(request_data,
               [method |-> "GET", url |-> WEATHER_API_BASE, params |-> request_data])

\* lines 181-210, up to the first await
proxy_request_tempest(request) ==
    IF request.method = "GET"
    THEN LET kw == [k \in FieldNames(WeatherRequestFields) |-> QueryGet(request, k)]
         IN IF ~(\A k \in DOMAIN kw : Truthy(kw[k]))
            THEN HTTPException(400, <<"Missing required query parameters">>)
            ELSE LET request_data == WeatherRequest(kw)
                 IN IF request_data.ok THEN weather_call(request_data.val)
                    ELSE Unhandled(request_data.exc)
    ELSE IF request.method = "POST" THEN AwaitBody
    ELSE HTTPException(400, <<"Unsupported request method">>)

\* lines 204-208, resumed when request.json() has the body
proxy_request_tempest_body(request) ==
    IF request.body = NotJson \/ request.body.t # "obj"
    THEN HTTPException(400, <<"Invalid JSON body.">>)
    ELSE LET request_data == WeatherRequest(request.body.v)
         IN IF request_data.ok THEN weather_call(request_data.val)
            ELSE HTTPException(400, <<"Invalid JSON body.">>)

\* lines 49-55: what the awaited client.get ends with
fetch_weather_data(reply) ==
    IF reply.k = "error" THEN HTTPException(502, <<"Proxy error: ", reply.text>>)
    ELSE IF reply.status \notin 200..299
    THEN HTTPException(reply.status, <<"Weather API error: ", reply.text>>)
    ELSE IF reply.json = NotJson THEN Unhandled("JSONDecodeError")
    ELSE Ok(reply.json)

\* mutant: a connection failure or timeout is retried
proxy_request_tempest_resume_retry(request_data, reply) ==
    LET raw_data == fetch_weather_data(reply)
    IN IF reply.k = "error" THEN weather_call(request_data)
       ELSE IF "ok" \notin DOMAIN raw_data THEN raw_data
       ELSE LET out == transform_data_tempest(raw_data.val)
            IN IF out.ok THEN Return(200, out.val, raw_data.val, <<>>)
               ELSE Unhandled(out.exc)

\* lines 224-227, resumed when the upstream call ends
proxy_request_tempest_resume(request_data, reply) ==
    LET raw_data == fetch_weather_data(reply)
    IN IF "ok" \notin DOMAIN raw_data THEN raw_data
       ELSE LET out == transform_data_tempest(raw_data.val)
            IN IF out.ok THEN Return(200, out.val, raw_data.val, <<>>)
               ELSE Unhandled(out.exc)

(***************************************************************************)
(* /proxy/parquet                                                          *)
(***************************************************************************)
\* lines 257-266: the payload dict and the call fetch_parqet_data sends
parqet_call(request_data) ==
    AwaitFetch(request_data,
               [method |-> "POST", url |-> PARQET_API_BASE,
                json |-> [portfolioIds |-> <<request_data["id"]>>, holdingIds |-> <<>>,
                          assetTypes |-> <<>>, timeframe |-> request_data["timeframe"]]])

\* lines 236-254, up to the first await
proxy_request_parquet(request) ==
    IF request.method = "GET"
    THEN LET id == QueryGet(request, "id")
             timeframe == QueryGet(request, "timeframe")
             perf == QueryGet(request, "perf")
             perf_chart == QueryGet(request, "perfChart")
         IN IF ~Truthy(id) \/ ~Truthy(timeframe) \/ ~Truthy(perf) \/ ~Truthy(perf_chart)
            THEN HTTPException(400, <<"Missing required query parameters">>)
            ELSE LET request_data ==
                        PortfolioRequest([id |-> id, timeframe |-> timeframe,
                                          perf |-> perf, perfChart |-> perf_chart])
                 IN IF request_data.ok THEN parqet_call(request_data.val)
                    ELSE Unhandled(request_data.exc)
    ELSE IF request.method = "POST" THEN AwaitBody
    ELSE HTTPException(400, <<"Unsupported">>)

\* lines 248-252, resumed when request.json() has the body
proxy_request_parquet_body(request) ==
    IF request.body = NotJson \/ request.body.t # "obj"
    THEN HTTPException(400, <<"Invalid JSON body.">>)
    ELSE LET request_data == PortfolioRequest(request.body.v)
         IN IF request_data.ok THEN parqet_call(request_data.val)
            ELSE HTTPException(400, <<"Invalid JSON body.">>)

\* mutant: every failed upstream call, an HTTP error status included, is
\* reported as 502
fetch_parqet_data_all_502(reply) ==
    IF reply.k = "error" \/ reply.status \notin 200..299
    THEN HTTPException(502, <<"Proxy error: ", reply.text>>)
    ELSE IF reply.json = NotJson THEN Unhandled("JSONDecodeError")
    ELSE Ok(reply.json)

\* lines 62-68: what the awaited client.post ends with
fetch_parqet_data(reply) ==
    IF reply.k = "error" THEN HTTPException(502, <<"Proxy error: ", reply.text>>)
    ELSE IF reply.status \notin 200..299
    THEN HTTPException(reply.status, <<"Parqet API error: ", reply.text>>)
    ELSE IF reply.json = NotJson THEN Unhandled("JSONDecodeError")
    ELSE Ok(reply.json)

\* lines 266-269, resumed when the upstream call ends
proxy_request_parquet_resume(request_data, reply) ==
    LET raw_data == fetch_parqet_data(reply)
    IN IF "ok" \notin DOMAIN raw_data THEN raw_data
       ELSE LET out == transform_data_parquet(raw_data.val, request_data["perf"],
                                              request_data["perfChart"])
            IN IF out.ok
               THEN Return(200, out.val, raw_data.val,
                           <<request_data["perf"], request_data["perfChart"]>>)
               ELSE Unhandled(out.exc)


(***************************************************************************)
(* Inbound requests and upstream replies the server is run on              *)
(***************************************************************************)
Without(m, k) == [j \in DOMAIN m \ {k} |-> m[j]]
With(m, k, x) == Merge(m, Field(k, x))

WeatherParams ==
    Dict(<< <<"station_id", Str("4711")>>, <<"units_temp", Str("c")>>,
            <<"units_wind", Str("m/s")>>, <<"units_pressure", Str("mb")>>,
            <<"units_precip", Str("mm")>>, <<"units_distance", Str("km")>>,
            <<"api_key", Str("secret")>> >>)

PortfolioParams ==
    Dict(<< <<"id", Str("pf1")>>, <<"timeframe", Str("1y")>>,
            <<"perf", Str("ttwror")>>, <<"perfChart", Str("drawdown")>> >>)

PortfolioParamsOther ==
    Dict(<< <<"id", Str("pf2")>>, <<"timeframe", Str("max")>>,
            <<"perf", Str("izf")>>, <<"perfChart", Str("ttwror")>> >>)

\* parameter sets: complete and valid, one parameter missing, one enum
\* parameter outside its literals, one enum parameter empty
ParamSets(endpoint) ==
    IF endpoint = "tempest"
    THEN { WeatherParams, Without(WeatherParams, "api_key"),
           With(WeatherParams, "units_wind", Str("knots")),
           With(WeatherParams, "units_temp", Str("")) }
    ELSE { PortfolioParams, PortfolioParamsOther, Without(PortfolioParams, "timeframe"),
           With(PortfolioParams, "perf", Str("alpha")),
           With(PortfolioParams, "perfChart", Str("")) }

ValidParamSets(endpoint) ==
    IF endpoint = "tempest" THEN {WeatherParams} ELSE {PortfolioParams, PortfolioParamsOther}

Request(endpoint, method, address, query, body) ==
    [ep |-> endpoint, method |-> method, addr |-> address, query |-> query, body |-> body]

\* GET with a query string, POST with a body (JSON object, JSON array, or
\* not JSON at all), and a method the routes are not registered for
RequestsOf(addresses, endpoint, params) ==
    { Request(endpoint, "GET", a, q, Null) : a \in addresses, q \in params }
    \cup { Request(endpoint, "POST", a, EmptyMap, Obj(q)) : a \in addresses, q \in params }

OddRequestsOf(addresses, endpoint) ==
    { Request(endpoint, "POST", a, EmptyMap, b) : a \in addresses, b \in {NotJson, Arr(<<>>)} }
    \cup { Request(endpoint, "PUT", a, EmptyMap, Obj(q))
           : a \in addresses, q \in ValidParamSets(endpoint) }

AllRequests(addresses) ==
    UNION { RequestsOf(addresses, e, ParamSets(e)) \cup OddRequestsOf(addresses, e)
            : e \in Endpoints }

\* the requests of the concurrent runs: every valid request of both routes,
\* and per route a GET with an enum parameter outside its set and a POST with
\* a parameter missing
ConcurrentRequests(addresses) ==
    UNION { RequestsOf(addresses, e, ValidParamSets(e)) : e \in Endpoints }
    \cup { Request("tempest", "GET", a, With(WeatherParams, "units_wind", Str("knots")), Null)
           : a \in addresses }
    \cup { Request("parquet", "POST", a, EmptyMap, Obj(Without(PortfolioParams, "timeframe")))
           : a \in addresses }

\* the requests of the limiter runs: valid ones and one with a missing parameter
LimiterRequests(addresses) ==
    { Request("tempest", "GET", a, q, Null)
      : a \in addresses, q \in {WeatherParams, Without(WeatherParams, "api_key")} }
    \cup { Request("parquet", "POST", a, EmptyMap, Obj(PortfolioParams)) : a \in addresses }

HttpReply(status, text, json) == [k |-> "response", status |-> status, text |-> text, json |-> json]
HttpError(text) == [k |-> "error", status |-> 0, text |-> text, json |-> NotJson]

WeatherGood ==
    Obj(Dict(<< <<"current_conditions", FullConditions>>,
                <<"forecast", Obj(Field("daily", Arr(<<FullDaily, PartialDaily>>)))>> >>))

PortfolioGood ==
    Obj(Dict(<< <<"holdings", Arr(<<SoldSecurity, ActiveSecurity>>)>>,
                <<"performance", Obj(Dict(<< <<"value", Num(110)>>, <<"izf", Num(4)>> >>))>>,
                <<"charts", Arr(<< Obj(EmptyMap),
                                   Obj(Field("values", Obj(Field("drawdown", Num(7)))))>>)>> >>))

\* upstream answers: 2xx with JSON (one payload the transformer raises on),
\* 2xx without a JSON body, 3xx/4xx/5xx with a body text, and no answer
UpstreamReplies(endpoint) ==
    { HttpReply(200, "", IF endpoint = "tempest" THEN WeatherGood ELSE PortfolioGood),
      HttpReply(200, "", Obj(Field(IF endpoint = "tempest" THEN "current_conditions"
                                   ELSE "holdings", Null))),
      HttpReply(204, "", NotJson),
      HttpReply(302, "moved", NotJson),
      HttpReply(404, "not found", NotJson),
      HttpReply(503, "unavailable", Obj(Field("error", Str("down")))),
      HttpError("timed out") }

AllReplies == UNION {UpstreamReplies(e) : e \in Endpoints}

(***************************************************************************)
(* The application: routing, the limiter, the event loop                   *)
(***************************************************************************)
NSlots == 2
MaxArrivals == 2
MaxArrivalsRequests == 2
MaxArrivalsLimiter == 7

\* mutant: the key function returns one constant for every client
LimiterKey_constant(endpoint, address) == <<endpoint, "10.0.0.1">>

\* slowapi's storage key of a limited route: the route and get_remote_address
LimiterKey(endpoint, address) == <<endpoint, address>>

\* limiter.limit("5/minute"): a fixed-window hit on the key's counter
limiter_hit(h, key) ==
    LET n == h[key] + 1
    IN [hits |-> [h EXCEPT ![key] = n], ok |-> n <= RateLimit]

Endpoint(request) ==
    IF request.ep = "tempest" THEN proxy_request_tempest(request)
    ELSE proxy_request_parquet(request)

EndpointBody(request) ==
    IF request.ep = "tempest" THEN proxy_request_tempest_body(request)
    ELSE proxy_request_parquet_body(request)

EndpointResume(request, request_data, reply) ==
    IF request.ep = "tempest" THEN proxy_request_tempest_resume(request_data, reply)
    ELSE proxy_request_parquet_resume(request_data, reply)

\* A request enters the app: the router answers 405 for a method the route is
\* not registered for; the limiter decorator hits the counter and answers 429
\* past the limit; otherwise the endpoint function starts.
app_dispatch(request, h) ==
    IF request.method \notin RouteMethods
    THEN [hits |-> h, step |-> HTTPException(405, <<"Method Not Allowed">>)]
    ELSE LET lim == limiter_hit(h, LimiterKey(request.ep, request.addr))
         IN [hits |-> lim.hits,
             step |-> IF lim.ok THEN Endpoint(request)
                      ELSE HTTPException(429, <<"Rate limit exceeded: 5 per 1 minute">>)]

\* FastAPI's answer to what the endpoint ended with: an HTTPException gives
\* its status and detail, any other exception 500, a return value 200.
ResponseOf(step) ==
    CASE step.k = "raise_http" -> [sent |-> TRUE, status |-> step.status, body |-> step.detail]
      [] step.k = "raise" -> [sent |-> TRUE, status |-> 500, body |-> <<"Internal Server Error">>]
      [] step.k = "return" -> [sent |-> TRUE, status |-> step.status, body |-> step.body]
      [] OTHER -> [sent |-> FALSE, status |-> 0, body |-> <<>>]

IdleSlot == [pc |-> "idle"]

\* the coroutine after a step: suspended on the body, suspended on the
\* upstream call it just sent, or finished
SlotAfter(request, step, calls) ==
    CASE step.k = "await_body" -> [pc |-> "body", request |-> request, calls |-> calls]
      [] step.k = "await_fetch" ->
            [pc |-> "fetch", request |-> request, request_data |-> step.request_data,
             call |-> step.call, calls |-> calls + 1]
      [] OTHER -> IdleSlot

CallsAfter(step, calls) == IF step.k = "await_fetch" THEN calls + 1 ELSE calls

NoReply == [k |-> "none"]

Event(kind, s, request, prior, step, calls, reply) ==
    [kind |-> kind, slot |-> s, request |-> request, prior |-> prior, step |-> step,
     response |-> ResponseOf(step), calls |-> CallsAfter(step, calls), reply |-> reply]

NoEvent == [kind |-> "none"]

\* a request arrives and runs up to its first await; its coroutine takes
\* the first free slot (slots only name the coroutines)
Arrive(s, request, cap) ==
    /\ slots[s].pc = "idle"
    /\ \A t \in 1..(s - 1) : slots[t].pc # "idle"
    /\ arrivals < cap
    /\ arrivals' = arrivals + 1
    /\ LET r == app_dispatch(request, hits)
           routed == request.method \in RouteMethods
           key == <<request.ep, request.addr>>
       IN /\ hits' = r.hits
          /\ win' = IF routed THEN [win EXCEPT ![key] = win[key] + 1] ELSE win
          /\ slots' = [slots EXCEPT ![s] = SlotAfter(request, r.step, 0)]
          /\ ev' = Event("arrive", s, request, win[key], r.step, 0, NoReply)
    /\ UNCHANGED <<tIn, tPerf, tPerfChart, tPc, tOut>>

\* await request.json() completes: the POST branch validates the body
ReadBody(s) ==
    /\ slots[s].pc = "body"
    /\ LET request == slots[s].request
           step == EndpointBody(request)
       IN /\ slots' = [slots EXCEPT ![s] = SlotAfter(request, step, slots[s].calls)]
          /\ ev' = Event("body", s, request, 0, step, slots[s].calls, NoReply)
    /\ UNCHANGED <<tIn, tPerf, tPerfChart, tPc, tOut, hits, win, arrivals>>

\* the awaited upstream call ends with `reply`: the handler runs to its end
UpstreamReply(s, reply) ==
    /\ slots[s].pc = "fetch"
    /\ reply \in UpstreamReplies(slots[s].request.ep)
    /\ LET request == slots[s].request
           step == EndpointResume(request, slots[s].request_data, reply)
       IN /\ slots' = [slots EXCEPT ![s] = SlotAfter(request, step, slots[s].calls)]
          /\ ev' = Event("reply", s, request, 0, step, slots[s].calls, reply)
    /\ UNCHANGED <<tIn, tPerf, tPerfChart, tPc, tOut, hits, win, arrivals>>

\* the one-minute window of a key runs out: the storage drops its counter
WindowExpire(endpoint, address) ==
    /\ win[<<endpoint, address>>] > 0
    /\ hits' = [hits EXCEPT ![LimiterKey(endpoint, address)] = 0]
    /\ win' = [win EXCEPT ![<<endpoint, address>>] = 0]
    /\ ev' = NoEvent
    /\ UNCHANGED <<tIn, tPerf, tPerfChart, tPc, tOut, slots, arrivals>>

TransformerIdle ==
    /\ tIn = Null
    /\ tPerf = ""
    /\ tPerfChart = ""
    /\ tPc = "idle"
    /\ tOut = NotRun

InitServer(n) ==
    /\ slots = [s \in 1..n |-> IdleSlot]
    /\ hits = [k \in Endpoints \X Addresses |-> 0]
    /\ win = [k \in Endpoints \X Addresses |-> 0]
    /\ arrivals = 0
    /\ ev = NoEvent
    /\ TransformerIdle

\* concurrent requests from one address
Init == InitServer(NSlots)

Next ==
    \/ \E s \in 1..NSlots, request \in ConcurrentRequests({"10.0.0.1"}) :
          Arrive(s, request, MaxArrivals)
    \/ \E s \in 1..NSlots : ReadBody(s)
    \/ \E s \in 1..NSlots, reply \in AllReplies : UpstreamReply(s, reply)
    \/ \E e \in Endpoints, a \in Addresses : WindowExpire(e, a)

Spec == Init /\ [][Next]_vars

\* one request at a time, of every kind, from one address
InitRequests == InitServer(1)

NextRequests ==
    \/ \E request \in AllRequests({"10.0.0.1"}) : Arrive(1, request, MaxArrivalsRequests)
    \/ ReadBody(1)
    \/ \E reply \in AllReplies : UpstreamReply(1, reply)
    \/ \E e \in Endpoints, a \in Addresses : WindowExpire(e, a)

SpecRequests == InitRequests /\ [][NextRequests]_vars

\* one request at a time from two addresses, long enough to pass the limit
InitLimiter == InitServer(1)

NextLimiter ==
    \/ \E request \in LimiterRequests(Addresses) : Arrive(1, request, MaxArrivalsLimiter)
    \/ ReadBody(1)
    \/ \E reply \in AllReplies : UpstreamReply(1, reply)
    \/ \E e \in Endpoints, a \in Addresses : WindowExpire(e, a)

SpecLimiter == InitLimiter /\ [][NextLimiter]_vars

(***************************************************************************)
(* Properties of the transformers                                          *)
(***************************************************************************)
Returned == tPc = "returned" /\ tOut.ok

IsObj(x) == x.t = "obj"
Has(x, k) == IsObj(x) /\ k \in DOMAIN x.v
\* a key of a record is absent, or holds a value of the given kind
OptKind(x, k, kind) == k \in DOMAIN x.v => x.v[k].t = kind
\* the value a reader finds under k: the source value, else `missing`
ValueAt(x, k, missing) == IF Has(x, k) THEN x.v[k] ELSE missing
KeySet(keys) == {keys[i] : i \in 1..Len(keys)}
\* `out` holds exactly `keys`, each the source value or null
IsProjection(out, src, keys) ==
    /\ IsObj(out)
    /\ DOMAIN out.v = KeySet(keys)
    /\ \A k \in KeySet(keys) : out.v[k] = ValueAt(src, k, Null)

\* the weather payload as the data model describes it: optional
\* current_conditions (a mapping), optional forecast.daily (a sequence of records)
WeatherShaped(data) ==
    /\ IsObj(data)
    /\ OptKind(data, "current_conditions", "obj")
    /\ OptKind(data, "forecast", "obj")
    /\ Has(data, "forecast") =>
          /\ OptKind(data.v["forecast"], "daily", "arr")
          /\ Has(data.v["forecast"], "daily") =>
                \A i \in 1..Len(data.v["forecast"].v["daily"].v) :
                    IsObj(data.v["forecast"].v["daily"].v[i])

\* the portfolio payload as the data model describes it
HoldingShaped(h) ==
    /\ IsObj(h)
    /\ OptKind(h, "assetType", "str")
    /\ \A k \in {"position", "performance", "asset", "sharedAsset"} : OptKind(h, k, "obj")

ChartShaped(c) == IsObj(c) /\ OptKind(c, "values", "obj")

PortfolioShaped(data) ==
    /\ IsObj(data)
    /\ OptKind(data, "holdings", "arr")
    /\ OptKind(data, "performance", "obj")
    /\ OptKind(data, "charts", "arr")
    /\ Has(data, "holdings") =>
          \A i \in 1..Len(data.v["holdings"].v) : HoldingShaped(data.v["holdings"].v[i])
    /\ Has(data, "charts") =>
          \A i \in 1..Len(data.v["charts"].v) : ChartShaped(data.v["charts"].v[i])

\* the upstream sequence under a top-level key (empty when the key is absent)
InputList(data, k) == IF Has(data, k) /\ data.v[k].t = "arr" THEN data.v[k].v ELSE <<>>

\* the holding filter rule, stated on the upstream record
SharesIsZero(x) == x = Num(0) \/ x = Bool(FALSE)
IsSoldTruthy(x) ==
    x \notin {Null, Bool(FALSE), Num(0), Str(""), Obj(EmptyMap), Arr(<<>>)}
Qualifies(h) ==
    /\ IsObj(h)
    /\ LET at == ValueAt(h, "assetType", Str(""))
           pos == ValueAt(h, "position", Obj(EmptyMap))
       IN /\ at.t = "str"
          /\ LowerStr(at.v) \in {"security", "crypto"}
          /\ ~IsSoldTruthy(ValueAt(pos, "isSold", Null))
          /\ ~SharesIsZero(ValueAt(pos, "shares", Null))

\* C1: whenever transform_data_parquet returns, its `holdings` are exactly the
\* upstream holdings whose lower-cased assetType is security or crypto, whose
\* position.isSold is not truthy and whose position.shares does not equal 0
\* (negative, null and missing shares are kept), in their upstream order, each
\* once; and it returns on every payload of the data model's shape.
C1_HoldingsFilter ==
    tPc = "returned" =>
        /\ PortfolioShaped(tIn) => tOut.ok
        /\ tOut.ok =>
              LET kept == SelectSeq(InputList(tIn, "holdings"), Qualifies)
                  out == tOut.val.v["holdings"].v
              IN /\ Len(out) = Len(kept)
                 /\ \A j \in 1..Len(out) :
                       /\ out[j].v["id"] = ValueAt(ValueAt(kept[j], "asset", Obj(EmptyMap)),
                                                   "identifier", Null)
                       /\ out[j].v["shares"] = ValueAt(ValueAt(kept[j], "position", Obj(EmptyMap)),
                                                       "shares", Null)
                       /\ out[j].v["assetType"].v \in {"security", "crypto"}

\* C1 witness: a returned run over three holdings in which the first and the
\* last upstream holding are kept (one with negative shares) and the middle
\* one, with shares 0, is dropped.
C1_Witness ==
    /\ Returned
    /\ Len(InputList(tIn, "holdings")) = 3
    /\ Len(tOut.val.v["holdings"].v) = 2
    /\ tOut.val.v["holdings"].v[1].v["id"] = Str("h2")
    /\ tOut.val.v["holdings"].v[1].v["shares"] = Num(-5)
    /\ tOut.val.v["holdings"].v[2].v["id"] = Str("h1")
    /\ ValueAt(ValueAt(tIn.v["holdings"].v[2], "position", Obj(EmptyMap)), "shares", Null) = Num(0)

\* the scalar the claim expects for one chart record
ChartScalar(c, k) == ValueAt(ValueAt(c, "values", Obj(EmptyMap)), k, Num(0))

\* C2: whenever transform_data_parquet returns, `chart` has max(0, n-1)
\* entries for n upstream charts, the i-th being values[perfChart] of upstream
\* record i+1 (0 when absent): the first record is skipped whatever it holds.
C2_ChartSkipsFirst ==
    tPc = "returned" =>
        /\ PortfolioShaped(tIn) => tOut.ok
        /\ tOut.ok =>
              LET cs == InputList(tIn, "charts")
                  out == tOut.val.v["chart"].v
              IN /\ Len(out) = (IF Len(cs) = 0 THEN 0 ELSE Len(cs) - 1)
                 /\ \A i \in 1..Len(out) : out[i] = ChartScalar(cs[i + 1], tPerfChart)

\* C2 witness: three upstream charts whose first record is null; the output
\* is the selected scalar of the second followed by the default 0 of the third.
C2_Witness ==
    /\ Returned
    /\ Len(InputList(tIn, "charts")) = 3
    /\ tIn.v["charts"].v[1] = Null
    /\ tPerfChart = "drawdown"
    /\ tOut.val.v["chart"].v = <<Num(7), Num(0)>>

\* the upstream forecast.daily sequence (empty when forecast or daily is absent)
InputDaily(data) ==
    IF Has(data, "forecast") THEN InputList(data.v["forecast"], "daily") ELSE <<>>

\* C3: whenever transform_data_tempest returns, forecast.daily has min(4, n)
\* records for n upstream records, the i-th being the i-th upstream record
\* projected onto the 10 named fields; records past the fourth are dropped,
\* and an absent forecast or forecast.daily gives the empty sequence.
C3_DailyFirstFour ==
    tPc = "returned" =>
        /\ WeatherShaped(tIn) => tOut.ok
        /\ tOut.ok =>
              LET ds == InputDaily(tIn)
                  out == tOut.val.v["forecast"].v["daily"].v
              IN /\ DOMAIN tOut.val.v["forecast"].v = {"daily"}
                 /\ Len(out) = (IF Len(ds) < 4 THEN Len(ds) ELSE 4)
                 /\ \A i \in 1..Len(out) : IsProjection(out[i], ds[i], DailyKeys)

\* C3 witness: five upstream records, the fifth one null; four come out, the
\* second carrying nulls for the fields its upstream record lacks.
C3_Witness ==
    /\ Returned
    /\ Len(InputDaily(tIn)) = 5
    /\ InputDaily(tIn)[5] = Null
    /\ InputDaily(tIn)[1] # InputDaily(tIn)[2]
    /\ Len(tOut.val.v["forecast"].v["daily"].v) = 4
    /\ tOut.val.v["forecast"].v["daily"].v[1].v["day_num"] = Num(1)
    /\ tOut.val.v["forecast"].v["daily"].v[2].v["day_num"] = Num(2)
    /\ tOut.val.v["forecast"].v["daily"].v[2].v["air_temp_high"] = Null

\* C4: whenever transform_data_tempest returns, current_conditions is the
\* empty mapping when the payload has no such key, and otherwise holds exactly
\* the 8 named keys, each the source value or null; nothing else is copied.
C4_CurrentConditions ==
    tPc = "returned" =>
        /\ WeatherShaped(tIn) => tOut.ok
        /\ tOut.ok =>
              LET out == tOut.val.v["current_conditions"]
              IN /\ DOMAIN tOut.val.v = {"current_conditions", "forecast"}
                 /\ IF Has(tIn, "current_conditions")
                    THEN IsProjection(out, tIn.v["current_conditions"], CurrentConditionsKeys)
                    ELSE out = Obj(EmptyMap)

\* C4 witness: a payload whose current_conditions lacks seven of the keys and
\* carries a foreign one; the output has the 8 keys, nulls where missing.
C4_Witness ==
    /\ Returned
    /\ Has(tIn, "current_conditions")
    /\ "uv" \in DOMAIN tIn.v["current_conditions"].v
    /\ tOut.val.v["current_conditions"].v["air_temperature"] = Num(3)
    /\ tOut.val.v["current_conditions"].v["wind_gust"] = Null
    /\ Cardinality(DOMAIN tOut.val.v["current_conditions"].v) = 8

\* C4 witness, second case: no current_conditions key, so the empty mapping
C4_WitnessAbsent ==
    /\ Returned
    /\ IsObj(tIn)
    /\ ~Has(tIn, "current_conditions")
    /\ tOut.val.v["current_conditions"] = Obj(EmptyMap)

\* C6: the transformers are total: on every upstream JSON object, whether its
\* optional keys are absent or present with a null value, the call returns an
\* output and raises nothing.
C6_TransformersTotal ==
    (tPc = "returned" /\ IsObj(tIn)) => tOut.ok

(***************************************************************************)
(* Properties of the request handling                                      *)
(***************************************************************************)
\* the parameters a request supplies: its query string, or its JSON body
Supplied(request) ==
    IF request.method = "GET" THEN request.query
    ELSE IF request.body # NotJson /\ request.body.t = "obj" THEN request.body.v
    ELSE EmptyMap

RequiredOf(request) ==
    IF request.ep = "tempest" THEN WeatherRequestFields ELSE PortfolioRequestFields

\* a required parameter is missing, or an enum parameter is outside its set
Defective(request) ==
    \E i \in 1..Len(RequiredOf(request)) :
        LET name == RequiredOf(request)[i][1]
            allowed == RequiredOf(request)[i][2]
        IN \/ name \notin DOMAIN Supplied(request)
           \/ allowed # {} /\ Supplied(request)[name] \notin {Str(x) : x \in allowed}

Responded == ev.kind # "none" /\ ev.response.sent

\* C5: a GET or POST request on either route with a required parameter
\* missing or an enum parameter outside its allowed set is answered 400.
C5_InvalidParamsGive400 ==
    (Responded /\ ev.request.method \in {"GET", "POST"} /\ Defective(ev.request))
        => ev.response.status = 400

\* C9: a request with a method other than GET or POST is answered 400.
C9_UnsupportedMethodGives400 ==
    (Responded /\ ev.request.method \notin {"GET", "POST"}) => ev.response.status = 400

\* C7: when the upstream call of a validated request ends with a non-2xx
\* status s, the response has status s and carries the upstream body text as
\* its detail; when the upstream cannot be reached or times out, the response
\* has status 502; in both cases the handler raised, no transformer output is
\* returned, and the request is over.
C7_UpstreamErrorsSurface ==
    (ev.kind = "reply" /\ ~(ev.reply.k = "response" /\ ev.reply.status \in 200..299)) =>
        /\ ev.response.sent
        /\ ev.step.k = "raise_http"
        /\ slots[ev.slot].pc = "idle"
        /\ ev.calls = 1
        /\ IF ev.reply.k = "response"
           THEN /\ ev.response.status = ev.reply.status
                /\ ev.response.body[Len(ev.response.body)] = ev.reply.text
           ELSE ev.response.status = 502

\* C7 witness: the upstream answered 404 "not found" and the proxy's response
\* is 404 with that text
C7_Witness ==
    /\ ev.kind = "reply"
    /\ ev.reply.k = "response"
    /\ ev.reply.status = 404
    /\ ev.response.status = 404
    /\ ev.response.body[2] = "not found"

\* C7, second case reached: the upstream timed out and the response is 502
C7_WitnessUnreachable ==
    /\ ev.kind = "reply"
    /\ ev.reply.k = "error"
    /\ ev.response.status = 502

\* the upstream call a valid request must lead to
ExpectedCall(request) ==
    IF request.ep = "tempest"
    THEN [method |-> "GET", url |-> WEATHER_API_BASE,
          params |-> [k \in FieldNames(WeatherRequestFields) |-> Supplied(request)[k].v]]
    ELSE [method |-> "POST", url |-> PARQET_API_BASE,
          json |-> [portfolioIds |-> <<Supplied(request)["id"].v>>, holdingIds |-> <<>>,
                    assetTypes |-> <<>>, timeframe |-> Supplied(request)["timeframe"].v]]

\* the transformer's result for a request's own reply and parameters
ExpectedOutput(request, reply) ==
    IF request.ep = "tempest" THEN transform_data_tempest(reply.json)
    ELSE transform_data_parquet(reply.json, Supplied(request)["perf"].v,
                                Supplied(request)["perfChart"].v)

\* C10: under every interleaving each request validates, then calls the
\* upstream, then transforms, then responds: it sends at most one upstream
\* call, none when its parameters are invalid, the call it sends is built
\* from its own parameters, and a transformed result is returned only after
\* its own call ended with a 2xx JSON reply, computed from that reply and its
\* own parameters.
C10_RequestPipeline ==
    /\ \A s \in DOMAIN slots :
          /\ slots[s].pc = "body" => slots[s].calls = 0
          /\ slots[s].pc = "fetch" =>
                /\ slots[s].calls = 1
                /\ ~Defective(slots[s].request)
                /\ slots[s].call = ExpectedCall(slots[s].request)
    /\ ev.kind # "none" =>
          /\ ev.calls <= 1
          /\ Defective(ev.request) => ev.calls = 0
          /\ ev.request.method = "POST" /\ ev.kind = "arrive" => ev.calls = 0
          /\ ev.step.k = "return" =>
                /\ ev.kind = "reply"
                /\ ev.calls = 1
                /\ ev.reply.k = "response"
                /\ ev.reply.status \in 200..299
                /\ ev.step.raw = ev.reply.json
                /\ ExpectedOutput(ev.request, ev.reply).ok
                /\ ev.response.body = ExpectedOutput(ev.request, ev.reply).val
          /\ (ev.response.sent /\ ev.response.status = 200) => ev.step.k = "return"

\* C10 witness: a portfolio request gets its transformed result while another
\* request, with other perf parameters, is waiting for its own upstream call
C10_Witness ==
    /\ ev.kind = "reply"
    /\ ev.step.k = "return"
    /\ ev.request.ep = "parquet"
    /\ ev.step.args = <<"izf", "ttwror">>
    /\ ev.response.body.v["performance"].v["perf"] = Num(4)
    /\ \E s \in DOMAIN slots :
          /\ slots[s].pc = "fetch"
          /\ slots[s].request.ep = "parquet"
          /\ slots[s].request_data["perf"] = "ttwror"

\* C8: a request routed to an endpoint from an address that already made 5
\* requests to it in the current window is answered 429 before the handler
\* validates anything, reads the body or calls the upstream; a request from
\* an address with fewer than 5 such requests is never answered 429,
\* whatever other addresses did.
C8_RateLimit ==
    (ev.kind = "arrive" /\ ev.request.method \in RouteMethods) =>
        /\ ev.prior >= 5 =>
              /\ ev.response.sent
              /\ ev.response.status = 429
              /\ ev.calls = 0
              /\ slots[ev.slot].pc = "idle"
        /\ ev.prior < 5 => ~(ev.response.sent /\ ev.response.status = 429)

\* C8 witness: the sixth request of an address in the window, one that lacks
\* a parameter, is answered 429
C8_Witness ==
    /\ ev.kind = "arrive"
    /\ ev.prior = 5
    /\ Defective(ev.request)
    /\ ev.response.status = 429

\* C8, second case reached: while one address is past the limit on an
\* endpoint, a request of the other address to it is let through
C8_WitnessOtherAddress ==
    /\ ev.kind = "arrive"
    /\ ev.request.addr = "10.0.0.2"
    /\ win[<<ev.request.ep, "10.0.0.1">>] > 5
    /\ ev.step.k = "await_fetch"

====
